---- MODULE Spec2Model ----
(***************************************************************************)
(* A model of the distributed-training lab notebooks of GluonBootcamp:     *)
(* the data sharder/uploader (save_and_upload, split_and_upload and the    *)
(* upload cell that drives them) in both revisions of the notebook, and    *)
(* the training entry point train() that the notebooks import; and of the  *)
(* profiling lab notebook: the cells that start and stop the profiler      *)
(* around a training iteration whose operations execute asynchronously.    *)
(*                                                                         *)
(* Rows and labels are symbolic: the i-th generated row of X is <<"x", i>> *)
(* and the i-th generated label is <<"y", i>>.  The code never inspects a  *)
(* value, it only slices, so a dataset of pairwise distinct rows shows     *)
(* every loss, duplication, reordering or mispairing of rows.              *)
(*                                                                         *)
(* Strings that the code builds (file names, local paths, object keys) are *)
(* sequences of tokens, "/" being a token of its own, so that the format   *)
(* calls are modelled by what they concatenate.                            *)
(***************************************************************************)
EXTENDS Integers, Sequences, FiniteSets, TLC

\* ------------------------------------------------------------------ bounds
\* Largest num_examples generated (the notebooks use 1000000 and 10000000).
MaxN == 12
\* Largest shard count k of a direct split_and_upload call.
MaxK == 4
\* Number of top-level invocations (cell executions) in one notebook session.
MaxCalls == 2
\* Largest number of hosts of a training cluster.
MaxHosts == 3
\* Largest hyperparameter epochs.
MaxEpochs == 3
\* Largest number of batches of the local data.
MaxBatches == 3

\* Largest number of rows of a host's local data in a multi-host job.
MaxShardRows == 2
\* Largest hyperparameter batch_size in a multi-host job.
MaxBatchSize == 2

\* ------------------------------------------------------- program constants
\* num_splits = 5 (part_001), the literal 5 of the split call (part_000).
num_splits == 5
\* num_examples as executed in part_001.
num_examples_executed == 1000000

\* The two revisions of the notebook.
Revisions == {"part_000", "part_001"}

\* prefix = 'distributed_training_gluon_lab/' (it includes the trailing slash).
prefix == <<"distributed_training_gluon_lab", "/">>
\* local_dir = '/tmp'
local_dir == <<"/tmp">>

\* The target folders the notebooks use: 'train/full', 'train', 'test'.
FolderTrainFull == <<"train", "/", "full">>
FolderTrain == <<"train">>
FolderTest == <<"test">>
Folders == {FolderTrainFull, FolderTrain, FolderTest}

VARIABLES
    rev,        \* which notebook is being run
    X, y,       \* the notebook's globals: feature matrix and label vector
    X_train, y_train, X_test, y_test,   \* globals assigned by the upload cell
    pc,         \* where the kernel is: idle, cell, loop, saved, uploading, failed
    err,        \* the uncaught exception that ended the run ("none" if none)
    cellpc,     \* 0: not in the upload cell; else the next statement of it
    sp,         \* the frame of split_and_upload
    sv,         \* the frame of save_and_upload
    localfs,    \* the local file system: path -> saved dictionary
    store,      \* the bucket: key -> object
    inflight,   \* transfers s3.upload_file has started and not finished
    puts,       \* keys put, in order, since the current call was entered
    call,       \* the top-level invocation in progress (or the last one)
    store0,     \* the bucket when that invocation started
    fs0,        \* the local file system when that invocation started
    hist,       \* the invocations that returned normally, in order
    calls       \* number of top-level invocations made

uploadVars == <<rev, X, y, X_train, y_train, X_test, y_test, pc, err, cellpc,
                sp, sv, localfs, store, inflight, puts, call, store0, fs0,
                hist, calls>>

VARIABLES
    hosts,          \* train(): the full list of host identifiers
    current_host,   \* train(): this process's identifier
    epochs,         \* hyperparameters['epochs']
    num_batches,    \* batches of the locally available data
    tpc,            \* "off", "start", "running", "done"
    sync_mode,      \* the gradient-synchronization mode selected
    epoch,          \* the epoch in progress
    batch,          \* batches of it already stepped
    steps,          \* optimizer steps applied
    reported        \* the epochs whose loss has been reported, in order

trainVars == <<hosts, current_host, epochs, num_batches, tpc, sync_mode,
               epoch, batch, steps, reported>>

VARIABLES
    wpc,             \* profiler walkthrough: the next statement (0: not run)
    op_i,            \* operations the iteration in progress has issued
    itr,             \* batches the data iterator itr has handed out
    profiler_config, \* "unset", or "set" once profiler.set_config was called
    profiler_state,  \* 'stop' or 'run'
    pending,         \* operations queued for execution and not completed
    finished         \* operations the execution engine has completed

profVars == <<wpc, op_i, itr, profiler_config, profiler_state, pending,
              finished>>

VARIABLES
    shard_rows,  \* multi-host job: rows of the local data of each host
    batch_size,  \* hyperparameters['batch_size'], the same on every host
    hpc,         \* per host: "running", "waiting" (at the sum) or "done"
    hepoch,      \* per host: the epoch in progress
    hbatch,      \* per host: batches of it already stepped
    hsteps       \* per host: optimizer steps applied

clusterVars == <<shard_rows, batch_size, hpc, hepoch, hbatch, hsteps>>

vars == <<uploadVars, trainVars, profVars, clusterVars>>

\* ---------------------------------------------------------- pure helpers
Min(a, b) == IF a < b THEN a ELSE b
Max(a, b) == IF a < b THEN b ELSE a

\* nd.random_normal(shape=(n, num_inputs)): n rows, pairwise distinct.
GenX(n) == [i \in 1..n |-> <<"x", i>>]
\* real_fn(X) + noise: one label per row of X.
GenY(n) == [i \in 1..n |-> <<"y", i>>]

\* Number of elements of a Python slice s[a:b] of a sequence of length n,
\* for 0 <= a and 0 <= b: both ends are clamped to n.
SliceLen(n, a, b) == Max(0, Min(b, n) - Min(a, n))

\* A slice that includes its end index.
Slice_EndIncluded(s, a, b) ==
    LET lo == Min(a, Len(s))
    IN  [j \in 1..SliceLen(Len(s), a, b + 1) |-> s[lo + j]]

\* The Python slice s[a:b] (0-based, b excluded).
Slice(s, a, b) ==
    LET lo == Min(a, Len(s))
    IN  [j \in 1..SliceLen(Len(s), a, b) |-> s[lo + j]]

\* list(range(0, stop, step)) for step > 0.
RangeList(stop, step) ==
    [j \in 1..(IF stop <= 0 THEN 0 ELSE ((stop - 1) \div step) + 1) |->
        (j - 1) * step]

DigitChars == <<"0", "1", "2", "3", "4", "5", "6", "7", "8", "9">>

\* '{}'.format(i) for an integer i >= 0: its decimal digits.
RECURSIVE FormatInt(_)
FormatInt(i) ==
    IF i < 10 THEN <<DigitChars[i + 1]>>
    ELSE FormatInt(i \div 10) \o <<DigitChars[(i % 10) + 1]>>

\* A local path that is the same for every shard: one shared file name.
LocalPath_Shared(file_name) == local_dir \o <<"/", "shard">>

\* os.path.join(local_dir, file_name)
LocalPath(file_name) == local_dir \o <<"/">> \o file_name

\* A key scheme that versions the object: the number of the invocation is
\* appended to the key.
UploadFilename_Versioned(r, target_folder, file_name) ==
    prefix \o target_folder \o <<"/">> \o file_name
        \o <<".", FormatInt(calls)>>

\* upload_filename: '{}{}/{}' in part_001, '{}/{}/{}' in part_000.
UploadFilename(r, target_folder, file_name) ==
    IF r = "part_001"
    THEN prefix \o target_folder \o <<"/">> \o file_name
    ELSE prefix \o <<"/">> \o target_folder \o <<"/">> \o file_name

\* idx = list(range(0, n+1, n//k)), for n//k > 0.
ShardIdx(n, k) == RangeList(n + 1, n \div k)

\* split_index = int(num_examples*train_frac), train_frac = 0.9.
SplitIndex(n) == (n * 9) \div 10

\* A map with key k set to v (a file written, an object put): the old value,
\* if any, is replaced.
Put(m, k, v) == [q \in DOMAIN m \cup {k} |-> IF q = k THEN v ELSE m[q]]

EmptyMap == [q \in {} |-> <<>>]

\* ----------------------------------------------------------------- frames
NoSplit == [active |-> FALSE, X |-> <<>>, y |-> <<>>, k |-> 0,
            target_folder |-> <<>>, n |-> 0, idx |-> <<>>,
            X_shards |-> <<>>, y_shards |-> <<>>, i |-> 0]

NoSave == [active |-> FALSE, X |-> <<>>, y |-> <<>>, target_folder |-> <<>>,
           i |-> 0, file_name |-> <<>>, local_path |-> <<>>,
           upload_filename |-> <<>>]

NoCall == [fn |-> "none", data |-> "none", k |-> 0, target_folder |-> <<>>,
           i |-> 0]

\* The channel locations the training jobs are given, without the bucket:
\* '{}train'.format(prefix) for the 5-host job, '{}train/full'.format(prefix)
\* for the single-host job.
TrainLocation == prefix \o FolderTrain
TrainFullLocation == prefix \o FolderTrainFull

\* The statements of the upload cell after the train/test split.
CellScript(r) ==
    IF r = "part_001"
    THEN << [fn |-> "save", data |-> "train", k |-> 0,
             target_folder |-> FolderTrainFull, i |-> 0],
            [fn |-> "split", data |-> "train", k |-> num_splits,
             target_folder |-> FolderTrain, i |-> 0],
            [fn |-> "save", data |-> "test", k |-> 0,
             target_folder |-> FolderTest, i |-> 0] >>
    ELSE << [fn |-> "split", data |-> "train", k |-> num_splits,
             target_folder |-> FolderTrain, i |-> 0],
            [fn |-> "save", data |-> "test", k |-> 0,
             target_folder |-> FolderTest, i |-> 0] >>

\* An upload call that returns as soon as the transfer has started.
UploadBlocks_Not == FALSE

\* s3.upload_file returns only when the transfer has completed.
UploadBlocks == TRUE

\* A loop whose targets X, y are the notebook's globals.
BindLoopTargets_Global(r, env, Xi, yi) ==
    [env EXCEPT !.gX = Xi, !.gy = yi]

\* Where the for statement of split_and_upload binds its targets: part_000
\* names them X, y (the function's own parameters), part_001 Xi, yi.  env is
\* [gX, gy: the globals; fX, fy: the frame's X and y].
BindLoopTargets(r, env, Xi, yi) ==
    IF r = "part_000"
    THEN [env EXCEPT !.fX = Xi, !.fy = yi]
    ELSE env

\* ------------------------------------------------------------------- Init
\* No training run is under way.
TrainOff ==
    /\ hosts = <<>>
    /\ current_host = ""
    /\ epochs = 0
    /\ num_batches = 0
    /\ tpc = "off"
    /\ sync_mode = "unset"
    /\ epoch = 0
    /\ batch = 0
    /\ steps = 0
    /\ reported = <<>>

\* No multi-host job is under way.
ClusterOff ==
    /\ shard_rows = <<>>
    /\ batch_size = 0
    /\ hpc = <<>>
    /\ hepoch = <<>>
    /\ hbatch = <<>>
    /\ hsteps = <<>>

\* No profiler walkthrough is under way.
ProfOff ==
    /\ wpc = 0
    /\ op_i = 0
    /\ itr = 0
    /\ profiler_config = "unset"
    /\ profiler_state = "stop"
    /\ pending = {}
    /\ finished = {}

\* The notebook after its first three cells: data generated, functions
\* defined, nothing saved or uploaded.
Init ==
    /\ TrainOff
    /\ ProfOff
    /\ ClusterOff
    /\ rev \in Revisions
    /\ \E n \in 0..MaxN : X = GenX(n) /\ y = GenY(n)
    /\ X_train = <<>> /\ y_train = <<>> /\ X_test = <<>> /\ y_test = <<>>
    /\ pc = "idle"
    /\ err = "none"
    /\ cellpc = 0
    /\ sp = NoSplit
    /\ sv = NoSave
    /\ localfs = EmptyMap
    /\ store = EmptyMap
    /\ inflight = {}
    /\ puts = <<>>
    /\ call = NoCall
    /\ store0 = EmptyMap
    /\ fs0 = EmptyMap
    /\ hist = <<>>
    /\ calls = 0

\* ---------------------------------------------------------------- actions
\* The value an argument expression of a statement denotes.
ArgX(d) == IF d = "train" THEN X_train ELSE IF d = "test" THEN X_test ELSE X
ArgY(d) == IF d = "train" THEN y_train ELSE IF d = "test" THEN y_test ELSE y

\* The assertion left out.
PreconditionHolds_Skipped(n, k) == TRUE

\* An assertion that rejects the empty dataset as well.
PreconditionHolds_NonEmpty(n, k) == n > 0 /\ (n \div k) * k = n

\* assert (n//k)*k == n, once n//k has been evaluated.
PreconditionHolds(n, k) == (n \div k) * k = n

\* The exception, if any, that split_and_upload raises before its loop:
\* n//k divides by zero, the assertion fails, range() refuses a zero step,
\* idx[i+1] is out of range.
SplitError(n, k) ==
    IF k = 0 THEN "ZeroDivisionError"
    ELSE IF ~PreconditionHolds(n, k) THEN "AssertionError"
    ELSE IF n \div k = 0 THEN "ValueError"
    ELSE IF Len(ShardIdx(n, k)) < k + 1 THEN "IndexError"
    ELSE "none"

\* Shards whose slices end one row late.
Shards_OneRowLate(s, idx, k) ==
    [i \in 1..k |-> Slice(s, idx[i], idx[i + 1] + 1)]

\* The shards [s[idx[i]:idx[i+1]] for i in range(k)].
Shards(s, idx, k) == [i \in 1..k |-> Slice(s, idx[i], idx[i + 1])]

\* Label shards cut one row further on than the feature shards.
LabelShards_Shifted(ay, idx, k) ==
    [i \in 1..k |-> Slice(ay, idx[i] + 1, idx[i + 1] + 1)]

\* X_shards = [X[idx[i]:idx[i+1]] for i in range(k)]
FeatureShards(aX, idx, k) == Shards(aX, idx, k)

\* y_shards = [y[idx[i]:idx[i+1]] for i in range(k)]
LabelShards(ay, idx, k) == Shards(ay, idx, k)

\* The frame of save_and_upload(aX, ay, target_folder, i) once it has run
\* as far as mx.nd.save.
SaveFrame(aX, ay, target_folder, i) ==
    [active |-> TRUE, X |-> aX, y |-> ay, target_folder |-> target_folder,
     i |-> i, file_name |-> FormatInt(i),
     local_path |-> LocalPath(FormatInt(i)),
     upload_filename |-> UploadFilename(rev, target_folder, FormatInt(i))]

\* save_and_upload as far as mx.nd.save(local_path, {'X': X, 'y': y}).
EnterSave(aX, ay, target_folder, i) ==
    /\ sv' = SaveFrame(aX, ay, target_folder, i)
    /\ localfs' = Put(localfs, LocalPath(FormatInt(i)), [X |-> aX, y |-> ay])
    /\ pc' = "saved"
    /\ err' = err

\* split_and_upload as far as the head of its for loop.
EnterSplit(aX, ay, k, target_folder, nextcell) ==
    LET n == Len(aX)
        e == SplitError(n, k)
    IN  /\ sv' = sv
        /\ localfs' = localfs
        /\ IF e # "none"
           THEN /\ pc' = "failed"
                /\ err' = e
                /\ sp' = NoSplit
                /\ cellpc' = 0
           ELSE /\ pc' = "loop"
                /\ err' = err
                /\ sp' = [active |-> TRUE, X |-> aX, y |-> ay, k |-> k,
                          target_folder |-> target_folder, n |-> n,
                          idx |-> ShardIdx(n, k),
                          X_shards |-> FeatureShards(aX, ShardIdx(n, k), k),
                          y_shards |-> LabelShards(ay, ShardIdx(n, k), k),
                          i |-> 0]
                /\ cellpc' = nextcell

\* A statement of the notebook's top level calls one of the two functions.
Exec(stmt, nextcell) ==
    /\ call' = stmt
    /\ store0' = store
    /\ fs0' = localfs
    /\ puts' = <<>>
    /\ IF stmt.fn = "save"
       THEN /\ EnterSave(ArgX(stmt.data), ArgY(stmt.data),
                         stmt.target_folder, stmt.i)
            /\ sp' = sp
            /\ cellpc' = nextcell
       ELSE EnterSplit(ArgX(stmt.data), ArgY(stmt.data), stmt.k,
                       stmt.target_folder, nextcell)
    /\ UNCHANGED <<rev, X, y, X_train, y_train, X_test, y_test, store,
                   inflight, hist>>

\* A cell that calls split_and_upload(X, y, k, target_folder) on the
\* generated dataset.
DirectSplit ==
    /\ pc = "idle"
    /\ calls < MaxCalls
    /\ \E k \in 0..MaxK, f \in Folders :
          Exec([fn |-> "split", data |-> "all", k |-> k,
                target_folder |-> f, i |-> 0], 0)
    /\ calls' = calls + 1

\* The upload cell up to its two print statements: the train/test split.
RunCell ==
    /\ pc = "idle"
    /\ calls < MaxCalls
    /\ LET split_index == SplitIndex(Len(X))
       IN  /\ X_train' = Slice(X, 0, split_index)
           /\ X_test' = Slice(X, split_index, Len(X))
           /\ y_train' = Slice(y, 0, split_index)
           /\ y_test' = Slice(y, split_index, Len(y))
    /\ pc' = "cell"
    /\ cellpc' = 1
    /\ calls' = calls + 1
    /\ UNCHANGED <<rev, X, y, err, sp, sv, localfs, store, inflight, puts,
                   call, store0, fs0, hist>>

\* The next call statement of the upload cell.
CellStep ==
    /\ pc = "cell"
    /\ cellpc \in 1..Len(CellScript(rev))
    /\ Exec(CellScript(rev)[cellpc], cellpc + 1)
    /\ UNCHANGED calls

\* The upload cell has run its last statement.
CellEnd ==
    /\ pc = "cell"
    /\ cellpc > Len(CellScript(rev))
    /\ pc' = "idle"
    /\ cellpc' = 0
    /\ UNCHANGED <<rev, X, y, X_train, y_train, X_test, y_test, err, sp, sv,
                   localfs, store, inflight, puts, call, store0, fs0, hist,
                   calls>>

\* for Xi,yi,i in zip(X_shards,y_shards,range(k)): the next triple is bound
\* and save_and_upload is called on it.
LoopNext ==
    /\ pc = "loop"
    /\ sp.i < sp.k
    /\ LET Xi == sp.X_shards[sp.i + 1]
           yi == sp.y_shards[sp.i + 1]
           env == BindLoopTargets(rev, [gX |-> X, gy |-> y,
                                        fX |-> sp.X, fy |-> sp.y], Xi, yi)
       IN  /\ X' = env.gX
           /\ y' = env.gy
           /\ sp' = [sp EXCEPT !.X = env.fX, !.y = env.fy]
           /\ EnterSave(Xi, yi, sp.target_folder, sp.i)
    /\ UNCHANGED <<rev, X_train, y_train, X_test, y_test, cellpc, store,
                   inflight, puts, call, store0, fs0, hist, calls>>

\* The for loop is exhausted: split_and_upload returns.
LoopExit ==
    /\ pc = "loop"
    /\ sp.i >= sp.k
    /\ sp' = NoSplit
    /\ hist' = Append(hist, [call |-> call, puts |-> puts, store |-> store])
    /\ pc' = IF cellpc > 0 THEN "cell" ELSE "idle"
    /\ UNCHANGED <<rev, X, y, X_train, y_train, X_test, y_test, err, cellpc,
                   sv, localfs, store, inflight, puts, call, store0, fs0,
                   calls>>

\* save_and_upload returns to its caller, the bucket and the log of puts
\* being st and ps by then.
ReturnFromSave(st, ps) ==
    /\ sv' = NoSave
    /\ IF sp.active
       THEN /\ sp' = [sp EXCEPT !.i = @ + 1]
            /\ pc' = "loop"
            /\ hist' = hist
       ELSE /\ sp' = sp
            /\ pc' = IF cellpc > 0 THEN "cell" ELSE "idle"
            /\ hist' = Append(hist, [call |-> call, puts |-> ps,
                                     store |-> st])

\* s3.upload_file(local_path, bucket_name, upload_filename) starts the
\* transfer of the local file.
UploadStart ==
    /\ pc = "saved"
    /\ inflight' = inflight \cup {[src |-> sv.local_path,
                                   key |-> sv.upload_filename]}
    /\ IF UploadBlocks
       THEN /\ pc' = "uploading"
            /\ UNCHANGED <<sp, sv, hist>>
       ELSE ReturnFromSave(store, puts)
    /\ UNCHANGED <<rev, X, y, X_train, y_train, X_test, y_test, err, cellpc,
                   localfs, store, puts, call, store0, fs0, calls>>

\* A transfer completes: the object is the local file as read, and replaces
\* whatever the key held.  The call that waits for it returns.
TransferDone ==
    /\ \E t \in inflight :
          /\ store' = Put(store, t.key, localfs[t.src])
          /\ puts' = Append(puts, t.key)
          /\ inflight' = inflight \ {t}
          /\ IF pc = "uploading"
             THEN ReturnFromSave(Put(store, t.key, localfs[t.src]),
                                 Append(puts, t.key))
             ELSE UNCHANGED <<pc, sp, sv, hist>>
    /\ UNCHANGED <<rev, X, y, X_train, y_train, X_test, y_test, err, cellpc,
                   localfs, call, store0, fs0, calls>>

\* A failed transfer after which the objects the invocation has put are
\* taken back: the bucket is again what it was when the invocation started.
TransferFail_Rollback ==
    /\ pc = "uploading"
    /\ \E t \in inflight : inflight' = inflight \ {t}
    /\ pc' = "failed"
    /\ err' = "TransferError"
    /\ sp' = NoSplit
    /\ sv' = NoSave
    /\ cellpc' = 0
    /\ store' = store0
    /\ UNCHANGED <<rev, X, y, X_train, y_train, X_test, y_test, localfs,
                   puts, call, store0, fs0, hist, calls>>

\* A transfer fails: whatever the transport raises leaves upload_file,
\* save_and_upload, split_and_upload and the cell.  No object is put.
TransferFail ==
    /\ pc = "uploading"
    /\ \E t \in inflight : inflight' = inflight \ {t}
    /\ pc' = "failed"
    /\ err' = "TransferError"
    /\ sp' = NoSplit
    /\ sv' = NoSave
    /\ cellpc' = 0
    /\ UNCHANGED <<rev, X, y, X_train, y_train, X_test, y_test, localfs,
                   store, puts, call, store0, fs0, hist, calls>>

Next ==
    \/ DirectSplit /\ UNCHANGED <<trainVars, profVars, clusterVars>>
    \/ RunCell /\ UNCHANGED <<trainVars, profVars, clusterVars>>
    \/ CellStep /\ UNCHANGED <<trainVars, profVars, clusterVars>>
    \/ CellEnd /\ UNCHANGED <<trainVars, profVars, clusterVars>>
    \/ LoopNext /\ UNCHANGED <<trainVars, profVars, clusterVars>>
    \/ LoopExit /\ UNCHANGED <<trainVars, profVars, clusterVars>>
    \/ UploadStart /\ UNCHANGED <<trainVars, profVars, clusterVars>>
    \/ TransferDone /\ UNCHANGED <<trainVars, profVars, clusterVars>>
    \/ TransferFail /\ UNCHANGED <<trainVars, profVars, clusterVars>>

Spec == Init /\ [][Next]_vars

\* ------------------------------------------------- training entry point
\* The host lists a cluster of h instances gets: 'alg-1', ..., 'alg-h'.
HostName(j) == <<"alg-", FormatInt(j)>>
HostList(h) == [j \in 1..h |-> HostName(j)]

LocalModes == {"Local"}
DistributedModes == {"DistributedSync", "DistributedAsync"}

\* A selection that makes only the first host of a cluster distributed.
SelectModes_FirstHostOnly(hs, cur) ==
    IF Len(hs) > 1 /\ cur = hs[1] THEN DistributedModes ELSE LocalModes

\* The modes train() may select for a host list hs on host cur: a
\* distributed one when more than one host is present, else the local one.
SelectModes(hs, cur) ==
    IF Len(hs) > 1 THEN DistributedModes ELSE LocalModes

\* An epoch loop that stops one epoch early.
EpochsOver_OneEarly(e, n) == e >= n - 1

\* An epoch loop that runs one epoch more.
EpochsOver_OneLate(e, n) == e > n

\* Whether the epoch loop is over before epoch e of n.
EpochsOver(e, n) == e >= n

\* train() is called on one host of a cluster: nothing uploaded matters to
\* it but the local data, of which it sees num_batches batches.
TrainInit ==
    /\ ProfOff
    /\ ClusterOff
    /\ rev = "part_001"
    /\ X = <<>> /\ y = <<>>
    /\ X_train = <<>> /\ y_train = <<>> /\ X_test = <<>> /\ y_test = <<>>
    /\ pc = "idle"
    /\ err = "none"
    /\ cellpc = 0
    /\ sp = NoSplit
    /\ sv = NoSave
    /\ localfs = EmptyMap
    /\ store = EmptyMap
    /\ inflight = {}
    /\ puts = <<>>
    /\ call = NoCall
    /\ store0 = EmptyMap
    /\ fs0 = EmptyMap
    /\ hist = <<>>
    /\ calls = 0
    /\ \E h \in 1..MaxHosts :
          /\ hosts = HostList(h)
          /\ \E j \in 1..h : current_host = HostName(j)
    /\ epochs \in 0..MaxEpochs
    /\ num_batches \in 1..MaxBatches
    /\ tpc = "start"
    /\ sync_mode = "unset"
    /\ epoch = 0
    /\ batch = 0
    /\ steps = 0
    /\ reported = <<>>

\* The synchronization mode is selected and the trainer created.
TrainSelect ==
    /\ tpc = "start"
    /\ sync_mode' \in SelectModes(hosts, current_host)
    /\ tpc' = "running"
    /\ UNCHANGED <<hosts, current_host, epochs, num_batches, epoch, batch,
                   steps, reported>>

\* One batch of the epoch: loss, backward, one optimizer step.
TrainBatch ==
    /\ tpc = "running"
    /\ ~EpochsOver(epoch, epochs)
    /\ batch < num_batches
    /\ batch' = batch + 1
    /\ steps' = steps + 1
    /\ UNCHANGED <<hosts, current_host, epochs, num_batches, tpc, sync_mode,
                   epoch, reported>>

\* An epoch that may end, and report its loss, with its last batch not yet
\* stepped.
TrainEpochEnd_SkipsLastBatch ==
    /\ tpc = "running"
    /\ ~EpochsOver(epoch, epochs)
    /\ batch >= num_batches - 1
    /\ reported' = Append(reported, epoch)
    /\ epoch' = epoch + 1
    /\ batch' = 0
    /\ UNCHANGED <<hosts, current_host, epochs, num_batches, tpc, sync_mode,
                   steps>>

\* The batches of the epoch are exhausted: its average loss is reported.
TrainEpochEnd ==
    /\ tpc = "running"
    /\ ~EpochsOver(epoch, epochs)
    /\ batch >= num_batches
    /\ reported' = Append(reported, epoch)
    /\ epoch' = epoch + 1
    /\ batch' = 0
    /\ UNCHANGED <<hosts, current_host, epochs, num_batches, tpc, sync_mode,
                   steps>>

\* The epoch loop is over: train() returns.
TrainDone ==
    /\ tpc = "running"
    /\ EpochsOver(epoch, epochs)
    /\ tpc' = "done"
    /\ UNCHANGED <<hosts, current_host, epochs, num_batches, sync_mode,
                   epoch, batch, steps, reported>>

TrainNext ==
    \/ TrainSelect /\ UNCHANGED <<uploadVars, profVars, clusterVars>>
    \/ TrainBatch /\ UNCHANGED <<uploadVars, profVars, clusterVars>>
    \/ TrainEpochEnd /\ UNCHANGED <<uploadVars, profVars, clusterVars>>
    \/ TrainDone /\ UNCHANGED <<uploadVars, profVars, clusterVars>>

TrainSpec == TrainInit /\ [][TrainNext]_vars

\* train() is straight-line code in one process with nothing to wait for:
\* as long as it has a next step, it takes it.
TrainFairSpec == TrainInit /\ [][TrainNext]_vars /\ WF_vars(TrainNext)

\* ------------------------------------------------- profiler walkthrough
\* The statements of the profiling notebook that touch the profiler or the
\* execution engine, in cell order: set_config; the first iteration; then
\* set_state('run'), the second iteration, waitall, set_state('stop').
Walkthrough ==
    <<"set_config", "iteration", "set_state_run", "iteration", "waitall",
      "set_state_stop">>

\* What run_training_iteration(data, label) asks the engine to do, in the
\* order of its statements.  Each call returns once the operation is queued.
IterationOps ==
    <<"data.as_in_context", "label.as_in_context", "net",
      "softmax_cross_entropy", "loss.backward", "trainer.step">>

\* A waitall that returns at once.
WaitallBlocks_Not == FALSE

\* mx.nd.waitall() returns only when no queued operation is left.
WaitallBlocks == TRUE

\* The walkthrough is about to start in a fresh kernel: nothing uploaded or
\* trained matters to it.
ProfInit ==
    /\ TrainOff
    /\ ClusterOff
    /\ rev = "part_001"
    /\ X = <<>> /\ y = <<>>
    /\ X_train = <<>> /\ y_train = <<>> /\ X_test = <<>> /\ y_test = <<>>
    /\ pc = "idle"
    /\ err = "none"
    /\ cellpc = 0
    /\ sp = NoSplit
    /\ sv = NoSave
    /\ localfs = EmptyMap
    /\ store = EmptyMap
    /\ inflight = {}
    /\ puts = <<>>
    /\ call = NoCall
    /\ store0 = EmptyMap
    /\ fs0 = EmptyMap
    /\ hist = <<>>
    /\ calls = 0
    /\ wpc = 1
    /\ op_i = 0
    /\ itr = 0
    /\ profiler_config = "unset"
    /\ profiler_state = "stop"
    /\ pending = {}
    /\ finished = {}

\* The statement the Python thread is at.
Stmt == IF wpc \in 1..Len(Walkthrough) THEN Walkthrough[wpc] ELSE "end"

\* profiler.set_config(profile_all=True, aggregate_stats=True, filename=...)
SetConfig ==
    /\ Stmt = "set_config"
    /\ profiler_config' = "set"
    /\ wpc' = wpc + 1
    /\ UNCHANGED <<op_i, itr, profiler_state, pending, finished>>

\* profiler.set_state('run')
SetStateRun ==
    /\ Stmt = "set_state_run"
    /\ profiler_state' = "run"
    /\ wpc' = wpc + 1
    /\ UNCHANGED <<op_i, itr, profiler_config, pending, finished>>

\* profiler.set_state('stop')
SetStateStop ==
    /\ Stmt = "set_state_stop"
    /\ profiler_state' = "stop"
    /\ wpc' = wpc + 1
    /\ UNCHANGED <<op_i, itr, profiler_config, pending, finished>>

\* run_training_iteration(*next(itr)): its next statement queues an
\* operation and returns; the first one follows next(itr).  The operation
\* carries the number of its iteration and the profiler state it was queued
\* under.
IssueOp ==
    /\ Stmt = "iteration"
    /\ op_i < Len(IterationOps)
    /\ LET n == IF op_i = 0 THEN itr + 1 ELSE itr
       IN  /\ itr' = n
           /\ pending' = pending \cup
                 {[iter |-> n, name |-> IterationOps[op_i + 1],
                   enq |-> profiler_state]}
    /\ op_i' = op_i + 1
    /\ UNCHANGED <<wpc, profiler_config, profiler_state, finished>>

\* run_training_iteration returns: all its operations are queued.
IterationReturn ==
    /\ Stmt = "iteration"
    /\ op_i = Len(IterationOps)
    /\ op_i' = 0
    /\ wpc' = wpc + 1
    /\ UNCHANGED <<itr, profiler_config, profiler_state, pending, finished>>

\* mx.nd.waitall()
WaitAll ==
    /\ Stmt = "waitall"
    /\ WaitallBlocks => pending = {}
    /\ wpc' = wpc + 1
    /\ UNCHANGED <<op_i, itr, profiler_config, profiler_state, pending,
                   finished>>

\* The execution engine completes a queued operation, at a moment of its
\* own choosing; fin is the profiler state at that moment.  The engine orders
\* operations by data dependencies that the notebook does not show: any
\* queued operation may be the next to complete.
EngineComplete ==
    /\ \E o \in pending :
          /\ pending' = pending \ {o}
          /\ finished' = finished \cup
                {[iter |-> o.iter, name |-> o.name, enq |-> o.enq,
                  fin |-> profiler_state]}
    /\ UNCHANGED <<wpc, op_i, itr, profiler_config, profiler_state>>

ProfNext ==
    \/ SetConfig /\ UNCHANGED <<uploadVars, trainVars, clusterVars>>
    \/ SetStateRun /\ UNCHANGED <<uploadVars, trainVars, clusterVars>>
    \/ SetStateStop /\ UNCHANGED <<uploadVars, trainVars, clusterVars>>
    \/ IssueOp /\ UNCHANGED <<uploadVars, trainVars, clusterVars>>
    \/ IterationReturn /\ UNCHANGED <<uploadVars, trainVars, clusterVars>>
    \/ WaitAll /\ UNCHANGED <<uploadVars, trainVars, clusterVars>>
    \/ EngineComplete /\ UNCHANGED <<uploadVars, trainVars, clusterVars>>

ProfSpec == ProfInit /\ [][ProfNext]_vars

\* ------------------------------------------------------- multi-host job
\* The job of l_estimator_5: one train() process per host, every one given
\* the same hyperparameters, synchronous distributed mode.  What a host
\* finds in its local data directory is an input of train(): the hosts have
\* shards of the same number of rows, but for at most one host whose local
\* data is of another size.
\* The batches of rows local rows: the last one may be short.
NumBatches(rows, bs) == (rows + bs - 1) \div bs

\* The local batches of host h.
HostBatches(h) == NumBatches(shard_rows[h], batch_size)

\* The gradients host h has handed in for summing.
Pushed(h) == hsteps[h] + (IF hpc[h] = "waiting" THEN 1 ELSE 0)

\* A sum that waits for one worker more than the job has.
RoundComplete_OneWorkerTooMany(h) ==
    Cardinality({g \in DOMAIN hpc : Pushed(g) >= Pushed(h)})
        >= Len(hosts) + 1

\* At the end of the batch the gradients are summed over the hosts and
\* broadcast back: the sum host h waits for is there once every host of
\* the job has handed in its gradients of that round.
RoundComplete(h) ==
    Cardinality({g \in DOMAIN hpc : Pushed(g) >= Pushed(h)}) >= Len(hosts)

ClusterInit ==
    /\ ProfOff
    /\ rev = "part_001"
    /\ X = <<>> /\ y = <<>>
    /\ X_train = <<>> /\ y_train = <<>> /\ X_test = <<>> /\ y_test = <<>>
    /\ pc = "idle"
    /\ err = "none"
    /\ cellpc = 0
    /\ sp = NoSplit
    /\ sv = NoSave
    /\ localfs = EmptyMap
    /\ store = EmptyMap
    /\ inflight = {}
    /\ puts = <<>>
    /\ call = NoCall
    /\ store0 = EmptyMap
    /\ fs0 = EmptyMap
    /\ hist = <<>>
    /\ calls = 0
    /\ current_host = ""
    /\ num_batches = 0
    /\ tpc = "off"
    /\ epoch = 0
    /\ batch = 0
    /\ steps = 0
    /\ reported = <<>>
    /\ sync_mode = "DistributedSync"
    /\ epochs \in 0..MaxEpochs
    /\ batch_size \in 1..MaxBatchSize
    /\ \E h \in 2..MaxHosts :
          /\ hosts = HostList(h)
          /\ \E r \in 1..MaxShardRows, other \in 1..MaxShardRows,
                 odd \in 0..h :
                shard_rows = [g \in 1..h |-> IF g = odd THEN other ELSE r]
          /\ hpc = [g \in 1..h |-> "running"]
          /\ hepoch = [g \in 1..h |-> 0]
          /\ hbatch = [g \in 1..h |-> 0]
          /\ hsteps = [g \in 1..h |-> 0]

\* Host h has computed the gradients of its next batch and hands them in:
\* trainer.step waits for the sum.
HostPush(h) ==
    /\ h \in DOMAIN hpc
    /\ hpc[h] = "running"
    /\ ~EpochsOver(hepoch[h], epochs)
    /\ hbatch[h] < HostBatches(h)
    /\ hpc' = [hpc EXCEPT ![h] = "waiting"]
    /\ UNCHANGED <<shard_rows, batch_size, hepoch, hbatch, hsteps>>

\* The sum has come back to host h: its optimizer step is applied.
HostStep(h) ==
    /\ h \in DOMAIN hpc
    /\ hpc[h] = "waiting"
    /\ RoundComplete(h)
    /\ hpc' = [hpc EXCEPT ![h] = "running"]
    /\ hsteps' = [hsteps EXCEPT ![h] = @ + 1]
    /\ hbatch' = [hbatch EXCEPT ![h] = @ + 1]
    /\ UNCHANGED <<shard_rows, batch_size, hepoch>>

\* The batches of host h's epoch are exhausted: its loss is reported.
HostEpochEnd(h) ==
    /\ h \in DOMAIN hpc
    /\ hpc[h] = "running"
    /\ ~EpochsOver(hepoch[h], epochs)
    /\ hbatch[h] >= HostBatches(h)
    /\ hepoch' = [hepoch EXCEPT ![h] = @ + 1]
    /\ hbatch' = [hbatch EXCEPT ![h] = 0]
    /\ UNCHANGED <<shard_rows, batch_size, hpc, hsteps>>

\* The epoch loop of host h is over: its train() returns.
HostDone(h) ==
    /\ h \in DOMAIN hpc
    /\ hpc[h] = "running"
    /\ EpochsOver(hepoch[h], epochs)
    /\ hpc' = [hpc EXCEPT ![h] = "done"]
    /\ UNCHANGED <<shard_rows, batch_size, hepoch, hbatch, hsteps>>

\* A step of the process of host h.
HostNext(h) ==
    /\ \/ HostPush(h)
       \/ HostStep(h)
       \/ HostEpochEnd(h)
       \/ HostDone(h)
    /\ UNCHANGED <<uploadVars, trainVars, profVars>>

ClusterNext ==
    \/ \E h \in 1..MaxHosts :
          HostPush(h) /\ UNCHANGED <<uploadVars, trainVars, profVars>>
    \/ \E h \in 1..MaxHosts :
          HostStep(h) /\ UNCHANGED <<uploadVars, trainVars, profVars>>
    \/ \E h \in 1..MaxHosts :
          HostEpochEnd(h) /\ UNCHANGED <<uploadVars, trainVars, profVars>>
    \/ \E h \in 1..MaxHosts :
          HostDone(h) /\ UNCHANGED <<uploadVars, trainVars, profVars>>

\* Every host runs its own process, which takes its next step whenever it
\* has one; a host that waits for a sum has none until the sum is there.
ClusterFairSpec ==
    /\ ClusterInit
    /\ [][ClusterNext]_vars
    /\ \A h \in 1..MaxHosts : WF_vars(HostNext(h))

\* ============================================================== claims
\* The dataset and the shard count of the split_and_upload call that the
\* statement in progress (or the last one) made.
CallX == ArgX(call.data)
CallY == ArgY(call.data)
CallN == Len(CallX)

\* split_and_upload was called and has neither returned nor been ended by a
\* failed transfer.
SplitEntered ==
    /\ call.fn = "split"
    /\ \/ pc \in {"loop", "saved", "uploading"}
       \/ pc = "failed" /\ err # "TransferError"

RECURSIVE Concat(_)
Concat(ss) == IF ss = <<>> THEN <<>> ELSE Head(ss) \o Concat(Tail(ss))

\* shards is a partition of s into k contiguous, equal-sized, pairwise
\* disjoint index ranges in the original order.
IsPartition(shards, s, k) ==
    LET n == Len(s)
        m == n \div k
    IN  /\ Len(shards) = k
        /\ \A i \in 1..k : Len(shards[i]) = m
        /\ \A i \in 1..k : \A j \in 1..m : shards[i][j] = s[(i - 1) * m + j]
        /\ Concat(shards) = s
        /\ \A r \in 1..n :
              Cardinality({p \in (1..k) \X (1..m) :
                              shards[p[1]][p[2]] = s[r]}) = 1

\* C1 (as the spec states it): for every dataset (X, y) of length n and
\* every k >= 1 with n divisible by k, split_and_upload computes k shards of
\* X and of y that are pairwise disjoint contiguous index ranges of the
\* original order, all of the same size, and whose concatenation in index
\* order is the original X and the original y.
C1_ShardsPartitionEveryDataset ==
    (SplitEntered /\ call.k >= 1 /\ CallN % call.k = 0) =>
        /\ sp.active
        /\ IsPartition(sp.X_shards, CallX, call.k)
        /\ IsPartition(sp.y_shards, CallY, call.k)

\* What holds of the code in place of C1: the same, for a dataset that is
\* not empty.
ShardsPartitionNonEmpty ==
    (SplitEntered /\ call.k >= 1 /\ CallN % call.k = 0 /\ CallN >= 1) =>
        /\ sp.active
        /\ IsPartition(sp.X_shards, CallX, call.k)
        /\ IsPartition(sp.y_shards, CallY, call.k)

\* k divides n: n is a multiple of k.
Divides(k, n) == \E c \in 0..n : n = k * c

\* Nothing has happened since the statement in progress was entered: no
\* local file written, no transfer started, no object put, the bucket as it
\* was before the call.
NothingDone ==
    /\ localfs = fs0
    /\ store = store0
    /\ puts = <<>>
    /\ inflight = {}
    /\ ~sp.active /\ ~sv.active

\* C2 (as the spec states it): when k does not divide len(X),
\* split_and_upload fails with the assertion error before any upload: no
\* local file is written, no object is put, the bucket is as it was.
C2_IndivisibleRaisesAssertion ==
    (call.fn = "split" /\ ~Divides(call.k, CallN)) =>
        /\ pc = "failed"
        /\ err = "AssertionError"
        /\ NothingDone

\* C2 (amended): when k >= 1 does not divide len(X), split_and_upload fails
\* with the assertion error, and when k = 0 with the division by zero that
\* evaluating the assertion raises; either way before any local file is
\* written or any object put, and the bucket is as it was before the call.
C2_IndivisibleFailsBeforeUpload ==
    /\ (call.fn = "split" /\ call.k >= 1 /\ ~Divides(call.k, CallN)) =>
          /\ pc = "failed"
          /\ err = "AssertionError"
          /\ NothingDone
    /\ (call.fn = "split" /\ call.k = 0) =>
          /\ pc = "failed"
          /\ err = "ZeroDivisionError"
          /\ NothingDone

\* C2's case: a call with k >= 2 not dividing n has failed on a bucket that
\* already held objects.
C2_Witness ==
    /\ pc = "failed"
    /\ err = "AssertionError"
    /\ call.fn = "split"
    /\ call.k >= 2
    /\ CallN > call.k
    /\ DOMAIN store # {}

\* C3: every shard split_and_upload passes to save_and_upload has exactly
\* n/k rows in its X part and in its y part; and for the executed sizes
\* (num_examples = 1000000, so n = 900000, and k = 5) the shard boundaries
\* give 5 shards of exactly 180000 rows.
C3_ShardRowCount ==
    /\ (sp.active /\ sv.active) =>
          /\ CallN % sp.k = 0
          /\ Len(sv.X) = CallN \div sp.k
          /\ Len(sv.y) = CallN \div sp.k
    /\ LET n == SplitIndex(num_examples_executed)
           idx == ShardIdx(n, num_splits)
       IN  /\ n = 900000
           /\ Len(idx) = num_splits + 1
           /\ \A i \in 1..num_splits :
                 SliceLen(n, idx[i], idx[i + 1]) = 180000

\* C3's case: a shard of more than one row, not the first, has been passed
\* to save_and_upload.
C3_Witness ==
    /\ sp.active /\ sv.active
    /\ sp.i >= 1
    /\ sp.k >= 2
    /\ Len(sv.X) >= 2

\* The key the spec's layout <prefix>/<folder>/<shard-index> gives shard i:
\* prefix, folder and index joined by one "/" each.
LayoutKey(target_folder, i) ==
    <<"distributed_training_gluon_lab", "/">> \o target_folder
        \o <<"/">> \o FormatInt(i)

\* The elements of a sequence.
Range(q) == {q[j] : j \in 1..Len(q)}

\* C4 (as the spec states it): a split_and_upload that returns has put
\* exactly k objects, one per shard index 0..k-1 and no others, the object of
\* shard i under the key <prefix>/<folder>/<i>.
C4_KeysFollowLayout ==
    \A j \in 1..Len(hist) :
        hist[j].call.fn = "split" =>
            /\ Len(hist[j].puts) = hist[j].call.k
            /\ Range(hist[j].puts) =
                  {LayoutKey(hist[j].call.target_folder, i) :
                      i \in 0..(hist[j].call.k - 1)}

\* What holds of both notebooks in place of C4: exactly k puts, one per
\* shard index, under the key the notebook's own format call builds.
KeysFollowFormatCall ==
    \A j \in 1..Len(hist) :
        hist[j].call.fn = "split" =>
            /\ Len(hist[j].puts) = hist[j].call.k
            /\ Range(hist[j].puts) =
                  {UploadFilename(rev, hist[j].call.target_folder,
                                  FormatInt(i)) :
                      i \in 0..(hist[j].call.k - 1)}
            /\ rev = "part_001" =>
                  Range(hist[j].puts) =
                      {LayoutKey(hist[j].call.target_folder, i) :
                          i \in 0..(hist[j].call.k - 1)}

\* The object that shard i (from 0) of a split of (aX, ay) into k holds:
\* rows and labels i*n/k .. (i+1)*n/k - 1 (from 0), in order.
ShardObject(aX, ay, k, i) ==
    LET m == Len(aX) \div k
    IN  [X |-> [j \in 1..m |-> aX[i * m + j]],
         y |-> [j \in 1..m |-> ay[i * m + j]]]

\* C5: the object uploaded for shard i holds {X: X[i*n/k .. (i+1)*n/k),
\* y: y[i*n/k .. (i+1)*n/k)}, the same index range of both, so that row j of
\* the stored X and element j of the stored y are row and label i*n/k + j of
\* the original dataset.
C5_ShardObjectPairsRows ==
    /\ sp.active =>
          \A i \in 0..(sp.i - 1) :
              LET key == UploadFilename(rev, sp.target_folder, FormatInt(i))
              IN  /\ key \in DOMAIN store
                  /\ store[key] = ShardObject(CallX, CallY, sp.k, i)
                  /\ \A j \in 1..Len(store[key].X) :
                        /\ store[key].X[j] = <<"x", store[key].y[j][2]>>
                        /\ store[key].y[j] = <<"y", store[key].X[j][2]>>
    /\ \A h \in 1..Len(hist) :
          hist[h].call.fn = "split" =>
              \A i \in 0..(hist[h].call.k - 1) :
                  LET key == UploadFilename(rev, hist[h].call.target_folder,
                                            FormatInt(i))
                  IN  /\ key \in DOMAIN hist[h].store
                      /\ hist[h].store[key] =
                            ShardObject(ArgX(hist[h].call.data),
                                        ArgY(hist[h].call.data),
                                        hist[h].call.k, i)

\* C5's case: two shards of more than one row each have been uploaded.
C5_Witness ==
    /\ sp.active
    /\ sp.i >= 2
    /\ LET key == UploadFilename(rev, sp.target_folder, FormatInt(1))
       IN  key \in DOMAIN store /\ Len(store[key].X) >= 2

\* C6: a split_and_upload invoked again with the same (X, y, k, folder)
\* puts to the same keys as the first invocation and leaves the bucket with
\* the keys and the contents it had after the first.
C6_RepeatedCallOverwrites ==
    \A j \in 1..(Len(hist) - 1) :
        (hist[j].call.fn = "split" /\ hist[j + 1].call = hist[j].call) =>
            /\ Range(hist[j + 1].puts) = Range(hist[j].puts)
            /\ Len(hist[j + 1].puts) = Len(hist[j].puts)
            /\ DOMAIN hist[j + 1].store = DOMAIN hist[j].store
            /\ hist[j + 1].store = hist[j].store

\* C6's case: the same split into two or more shards has returned twice in
\* a row.
C6_Witness ==
    \E j \in 1..(Len(hist) - 1) :
        /\ hist[j].call.fn = "split"
        /\ hist[j + 1].call = hist[j].call
        /\ hist[j].call.k >= 2
        /\ Len(hist[j + 1].puts) >= 2

\* C9: no step of save_and_upload or split_and_upload changes the caller's
\* X and y: the generated X and y never change, and the train and test
\* parts change only where the upload cell assigns them.
C9_CallerDataUnchanged ==
    [][ /\ X' = X
        /\ y' = y
        /\ pc # "idle" =>
              /\ X_train' = X_train /\ y_train' = y_train
              /\ X_test' = X_test /\ y_test' = y_test ]_vars

\* C9's case: the loop of part_000, whose targets are named X and y, has
\* bound them to a shard.
C9_Witness ==
    /\ rev = "part_000"
    /\ sp.active
    /\ sp.i >= 1
    /\ sp.X # CallX
    /\ Len(CallX) >= 2

\* C10: within one split_and_upload the shards are handled one after
\* another in increasing index order: the puts made so far are those of
\* shards 0..i-1 in that order, the local file of shard i holds shard i
\* before its transfer starts and while it runs, no transfer is in progress
\* when a local file is written or the loop moves on, and never two.
C10_ShardsSequential ==
    /\ Cardinality(inflight) <= 1
    /\ sp.active =>
          LET key(i) == UploadFilename(rev, sp.target_folder, FormatInt(i))
              path == LocalPath(FormatInt(sp.i))
              shard == [X |-> sp.X_shards[sp.i + 1],
                        y |-> sp.y_shards[sp.i + 1]]
          IN  /\ puts = [j \in 1..sp.i |-> key(j - 1)]
              /\ pc \in {"loop", "saved", "uploading"}
              /\ pc = "loop" => inflight = {} /\ ~sv.active
              /\ pc = "saved" =>
                    /\ inflight = {}
                    /\ sv.i = sp.i
                    /\ path \in DOMAIN localfs /\ localfs[path] = shard
              /\ pc = "uploading" =>
                    /\ inflight = {[src |-> path, key |-> key(sp.i)]}
                    /\ sv.i = sp.i
                    /\ path \in DOMAIN localfs /\ localfs[path] = shard

\* C10's case: the third shard is being transferred.
C10_Witness ==
    /\ sp.active
    /\ pc = "uploading"
    /\ sp.i >= 2

\* C7: a distributed mode is selected if and only if hosts holds more than
\* one identifier, a single host gets the local mode, whichever host the
\* current one is.
C7_ModeByHostCount ==
    tpc \in {"running", "done"} =>
        /\ sync_mode \in DistributedModes <=> Len(hosts) > 1
        /\ sync_mode \in LocalModes <=> Len(hosts) = 1
        /\ hosts = <<HostName(1)>> => sync_mode = "Local"

\* C7's case: a host that is not the first of several has selected its mode.
C7_Witness ==
    /\ tpc \in {"running", "done"}
    /\ Len(hosts) > 1
    /\ current_host # hosts[1]
    /\ sync_mode \in DistributedModes

\* C8: a run with epochs = N over at least one local batch reports N losses,
\* for epoch 0, 1, ..., N-1 in that order, whatever the number of batches.
C8_OneLossPerEpoch ==
    num_batches >= 1 =>
        /\ reported = [j \in 1..Len(reported) |-> j - 1]
        /\ Len(reported) <= epochs
        /\ tpc = "done" => Len(reported) = epochs

\* C8's case: a run of several epochs of several batches has ended.
C8_Witness ==
    /\ tpc = "done"
    /\ epochs >= 2
    /\ num_batches >= 2
    /\ Len(reported) >= 2

\* split_and_upload has returned to the notebook and nothing has been
\* called since.
SplitReturned ==
    /\ call.fn = "split"
    /\ pc \in {"idle", "cell"}

\* The local files whose content is not what it was when the invocation in
\* progress (or the last one) started.
FilesChanged ==
    {p \in DOMAIN localfs : p \notin DOMAIN fs0 \/ localfs[p] # fs0[p]}

\* The local path save_and_upload gives shard i.
ShardPath(i) == LocalPath(FormatInt(i))

\* C11 (as the spec states it): within one split_and_upload all k shards are
\* written to a single shared local file name, each shard overwriting the
\* file of the previous one, so that once the invocation has returned it has
\* left exactly one local file, which holds the last shard.
C11_ShardsShareOneLocalFile ==
    /\ (sp.active /\ sv.active) => sv.local_path = ShardPath(0)
    /\ SplitReturned =>
          /\ Cardinality(FilesChanged) <= 1
          /\ Cardinality(DOMAIN localfs \ DOMAIN fs0) <= 1
          /\ \E p \in DOMAIN localfs :
                localfs[p] = ShardObject(CallX, CallY, call.k, call.k - 1)

\* C11 (amended): the local file name of a shard is its index, so within one
\* split_and_upload the k shards are written to k different local files
\* <local_dir>/0 .. <local_dir>/(k-1), no shard overwriting the file of
\* another; once the invocation has returned, file i holds shard i for every
\* i, and every other local file is as it was before the invocation.
C11_OneLocalFilePerShardIndex ==
    /\ (sp.active /\ sv.active) =>
          /\ sv.i = sp.i
          /\ sv.local_path = local_dir \o <<"/">> \o FormatInt(sp.i)
          /\ \A j \in 0..(sp.i - 1) : sv.local_path # ShardPath(j)
    /\ sp.active =>
          \A j \in 0..(sp.i - 1) :
              /\ ShardPath(j) \in DOMAIN localfs
              /\ localfs[ShardPath(j)] = ShardObject(CallX, CallY, sp.k, j)
    /\ SplitReturned =>
          /\ Cardinality({ShardPath(i) : i \in 0..(call.k - 1)}) = call.k
          /\ \A i \in 0..(call.k - 1) :
                /\ ShardPath(i) \in DOMAIN localfs
                /\ localfs[ShardPath(i)] =
                      ShardObject(CallX, CallY, call.k, i)
          /\ DOMAIN localfs =
                DOMAIN fs0 \cup {ShardPath(i) : i \in 0..(call.k - 1)}
          /\ \A p \in DOMAIN fs0 \ {ShardPath(i) : i \in 0..(call.k - 1)} :
                localfs[p] = fs0[p]

\* C11's case: a split into three or more shards of a first invocation has
\* returned, and left three or more local files.
C11_Witness ==
    /\ SplitReturned
    /\ call.k >= 3
    /\ fs0 = EmptyMap
    /\ Cardinality(DOMAIN localfs) >= 3

\* The transfer of a shard of split_and_upload has failed.
SplitTransferFailed ==
    /\ pc = "failed"
    /\ err = "TransferError"
    /\ call.fn = "split"

\* C12: if the transfer of shard i fails during split_and_upload, the error
\* leaves the routine and ends the run: the failed state is never left (no
\* retry, no later statement), no transfer is pending, no shard j > i has
\* been saved locally or uploaded, shard i itself has not been put, and the
\* objects put for shards 0..i-1 are in the bucket with their contents, every
\* other object being as it was before the invocation (no rollback).
C12_FailedTransferEndsSplit ==
    /\ [](SplitTransferFailed =>
            LET i == Len(puts)
                k == call.k
                key(j) == UploadFilename(rev, call.target_folder,
                                         FormatInt(j))
            IN  /\ i < k
                /\ inflight = {}
                /\ ~sp.active /\ ~sv.active /\ cellpc = 0
                /\ puts = [j \in 1..i |-> key(j - 1)]
                /\ \A j \in 0..(i - 1) :
                      /\ key(j) \in DOMAIN store
                      /\ store[key(j)] = ShardObject(CallX, CallY, k, j)
                /\ DOMAIN store = DOMAIN store0 \cup Range(puts)
                /\ \A q \in DOMAIN store \ Range(puts) :
                      store[q] = store0[q]
                /\ DOMAIN localfs =
                      DOMAIN fs0 \cup {ShardPath(j) : j \in 0..i}
                /\ \A j \in (i + 1)..(k - 1) :
                      ShardPath(j) \in DOMAIN localfs =>
                          localfs[ShardPath(j)] = fs0[ShardPath(j)])
    /\ [][pc = "failed" => FALSE]_vars

\* C12's case: the transfer of the second of three or more shards has
\* failed, after the first was put into a bucket that already held objects.
C12_Witness ==
    /\ SplitTransferFailed
    /\ Len(puts) = 1
    /\ call.k >= 3
    /\ DOMAIN store0 # {}

\* C13: a training run always reaches Done, and reaches it from Running
\* after exactly N = epochs epochs: the run is only ever starting, running or
\* done (there is no failed or retry state), it does not leave Running while
\* epochs remain (no early stop), it becomes Done only from Running with all
\* N epochs run and reported, and once Done it stays Done.
C13_RunReachesDoneAfterNEpochs ==
    /\ <>(tpc = "done")
    /\ [](tpc \in {"start", "running", "done"})
    /\ [](tpc = "done" => epoch = epochs /\ Len(reported) = epochs)
    /\ [][(tpc # "done" /\ tpc' = "done") =>
              (tpc = "running" /\ epoch = epochs)]_vars
    /\ [][(tpc = "running" /\ epoch < epochs) => tpc' = "running"]_vars
    /\ [][tpc = "done" => tpc' = "done"]_vars

\* C13's case: a run of the largest number of epochs, of several batches
\* each, is Done.
C13_Witness ==
    /\ tpc = "done"
    /\ epochs = MaxEpochs
    /\ epoch = MaxEpochs
    /\ steps >= 2 * MaxEpochs

\* C14: in each epoch the loop visits every local batch exactly once and
\* applies one optimizer step per batch: the steps applied are always
\* B * (epochs completed) + (batches of the current epoch visited), a step is
\* applied only together with the visit of one more batch, a run of N epochs
\* over B batches that is Done has applied exactly N * B steps, and the loss
\* of an epoch is reported only when all B batches of that epoch have been
\* stepped.
C14_OneStepPerBatch ==
    /\ [](tpc \in {"running", "done"} =>
            /\ batch \in 0..num_batches
            /\ steps = epoch * num_batches + batch
            /\ steps >= Len(reported) * num_batches
            /\ tpc = "done" => steps = epochs * num_batches)
    /\ [][steps' # steps => (steps' = steps + 1 /\ batch' = batch + 1
                             /\ epoch' = epoch)]_vars
    /\ [][batch' # batch => (batch' = batch + 1 /\ steps' = steps + 1)
                            \/ (batch' = 0 /\ batch = num_batches
                                /\ epoch' = epoch + 1)]_vars
    /\ [][reported' # reported =>
              /\ batch = num_batches
              /\ steps = (epoch + 1) * num_batches
              /\ reported' = Append(reported, epoch)]_vars

\* C14's case: the largest run, MaxEpochs epochs over MaxBatches batches, is
\* Done with all its steps applied.
C14_Witness ==
    /\ tpc = "done"
    /\ num_batches = MaxBatches
    /\ steps = MaxEpochs * MaxBatches

\* The upload cell has cut the generated dataset into its train and test
\* parts, as they are now.
CellHasSplit == pc = "cell" \/ call.data \in {"train", "test"}

\* The number of rows a training set of 99% of n rows would have, rounded
\* as the cell rounds (int(n * 0.99)).
NinetyNinePercent(n) == (n * 99) \div 100

\* C15 (as the notebook's text states it): the test set the upload cell
\* holds out is 1% of the generated examples and the training set the
\* remaining 99%.
C15_TestSetIsOnePercent ==
    CellHasSplit =>
        /\ Len(X_train) = NinetyNinePercent(Len(X))
        /\ Len(X_test) = Len(X) - NinetyNinePercent(Len(X))
        /\ Len(y_test) = Len(X_test)

\* The operations issued so far, completed or not, as [iter, name, enq].
Issued ==
    pending \cup {[iter |-> o.iter, name |-> o.name, enq |-> o.enq] :
                     o \in finished}

\* The walkthrough has run its last statement.
WalkthroughOver == wpc > Len(Walkthrough)

\* What holds of the walkthrough in place of C16, whatever the engine does:
\* set_config precedes the first set_state('run'); recording starts only
\* once the first iteration has returned; the operations queued while the
\* profiler is not recording are those of the first iteration and the ones
\* queued while it records are those of the second; at the end exactly one
\* iteration, the second, has been issued between 'run' and 'stop'.
CallOrder ==
    /\ profiler_state = "run" => profiler_config = "set"
    /\ profiler_state = "run" =>
          \A j \in 1..Len(IterationOps) :
              [iter |-> 1, name |-> IterationOps[j], enq |-> "stop"]
                  \in Issued
    /\ \A o \in Issued :
          /\ o.iter \in {1, 2}
          /\ o.iter = 1 <=> o.enq = "stop"
          /\ o.iter = 2 <=> o.enq = "run"
    /\ WalkthroughOver =>
          /\ profiler_state = "stop"
          /\ {o.iter : o \in {q \in Issued : q.enq = "run"}} = {2}
          /\ {o.name : o \in {q \in Issued : q.enq = "run"}} =
                Range(IterationOps)

\* C16: the first training iteration runs entirely while the
\* profiler is not recording (none of its operations is still queued when
\* recording starts, none completes while the profiler records), exactly one
\* iteration, the second, is executed between set_state('run') and
\* set_state('stop'), and set_config precedes the first start.
C16_FirstIterationRunsUnrecorded ==
    /\ CallOrder
    /\ profiler_state = "run" => \A o \in pending : o.iter # 1
    /\ \A o \in finished : o.iter = 1 => o.fin = "stop"

\* C17: the profiler is stopped only when every operation queued by the
\* profiled iteration has completed: an operation queued while the profiler
\* records completes while it records, whatever the interleaving of the
\* Python thread and the engine; when set_state('stop') is called, and ever
\* after, no operation is queued, and all operations of the profiled
\* iteration have completed.
C17_StoppedAfterQueuedOpsComplete ==
    /\ \A o \in finished : o.enq = "run" => o.fin = "run"
    /\ Stmt = "set_state_stop" => pending = {}
    /\ WalkthroughOver =>
          /\ pending = {}
          /\ \A j \in 1..Len(IterationOps) :
                [iter |-> 2, name |-> IterationOps[j], enq |-> "run",
                 fin |-> "run"] \in finished

\* C17's case: the profiler has been stopped after an interleaving in which
\* the engine was still executing the first iteration when recording began
\* and executed the whole second iteration during the recording.
C17_Witness ==
    /\ WalkthroughOver
    /\ profiler_state = "stop"
    /\ \E o \in finished : o.iter = 1 /\ o.fin = "run"
    /\ Cardinality({o \in finished : o.enq = "run" /\ o.fin = "run"}) =
          Len(IterationOps)

\* C18: the train/test split of the upload cell partitions the dataset:
\* the training set is the first split_index rows and the test set all the
\* remaining rows, in their original order; the two have no row in common,
\* their sizes add up to num_examples, and X and y are cut at the same
\* index.
C18_TrainTestPartition ==
    CellHasSplit =>
        LET n == Len(X)
            split_index == (n * 9) \div 10
        IN  /\ Len(X_train) = split_index
            /\ Len(y_train) = split_index
            /\ \A j \in 1..split_index :
                  X_train[j] = X[j] /\ y_train[j] = y[j]
            /\ Len(X_test) = n - split_index
            /\ Len(y_test) = n - split_index
            /\ \A j \in 1..(n - split_index) :
                  /\ X_test[j] = X[split_index + j]
                  /\ y_test[j] = y[split_index + j]
            /\ X_train \o X_test = X
            /\ y_train \o y_test = y
            /\ Range(X_train) \cap Range(X_test) = {}
            /\ Range(y_train) \cap Range(y_test) = {}
            /\ Len(X_train) + Len(X_test) = n
            /\ Len(y) = n

\* C18's case: the cell has cut a dataset into a training set and a test set
\* of two or more rows each.
C18_Witness ==
    /\ CellHasSplit
    /\ Len(X_train) >= 2
    /\ Len(X_test) >= 2
    /\ Len(y_test) >= 2

\* Key k lies under location p: p is a prefix of k.
IsKeyPrefix(p, k) == Len(p) <= Len(k) /\ SubSeq(k, 1, Len(p)) = p

\* The keys of the bucket's objects that lie under a location.
Under(location) == {k \in DOMAIN store : IsKeyPrefix(location, k)}

\* The upload cell of part_001 has run to its end, as the only cell of the
\* session: full copy, five shards and test copy are in the bucket.
FreshCellCompleted ==
    /\ rev = "part_001"
    /\ calls = 1
    /\ pc = "idle"
    /\ call.data = "test"
    /\ Len(hist) = Len(CellScript(rev))

\* The keys of the five shard objects and of the full copy.
ShardKeys ==
    {UploadFilename(rev, FolderTrain, FormatInt(i)) :
        i \in 0..(num_splits - 1)}
FullCopyKey == UploadFilename(rev, FolderTrainFull, FormatInt(0))

\* C19: after the upload cell the objects whose key lies under the 'train'
\* channel location <prefix>train, which the 5-host job reads, are exactly
\* the 5 shard objects train/0 .. train/4, and the objects under
\* <prefix>train/full are exactly the single full copy.
C19_TrainChannelHoldsOnlyShards ==
    FreshCellCompleted =>
        /\ Under(TrainLocation) = ShardKeys
        /\ Under(TrainFullLocation) = {FullCopyKey}

\* What holds of the cell in place of C19: the objects under <prefix>train
\* are the 5 shards and the full copy train/full/0, six objects, the full
\* copy being the only one under <prefix>train/full.
TrainChannelAlsoHoldsFullCopy ==
    FreshCellCompleted =>
        /\ Under(TrainLocation) = ShardKeys \cup {FullCopyKey}
        /\ Cardinality(Under(TrainLocation)) = num_splits + 1
        /\ Under(TrainFullLocation) = {FullCopyKey}

\* C20: although save_and_upload calls for the same index write the same
\* local file (the cell writes <local_dir>/0 three times), every object holds
\* exactly the data passed to the call that uploaded it: while a transfer is
\* under way the call that started it has not returned and the local file
\* it reads holds that call's data; a save_and_upload that has returned has
\* left its X and y under its key; and after the cell the full copy holds
\* the training set, shard object i holds shard i of it, the test object
\* holds the test set, and <local_dir>/0 holds what was written to it last.
C20_ObjectsHoldDataOfTheirCall ==
    /\ \A t \in inflight :
          /\ sv.active
          /\ t.src = sv.local_path
          /\ t.key = sv.upload_filename
          /\ localfs[t.src] = [X |-> sv.X, y |-> sv.y]
    /\ \A j \in 1..Len(hist) :
          hist[j].call.fn = "save" =>
              LET key == UploadFilename(rev, hist[j].call.target_folder,
                                        FormatInt(hist[j].call.i))
              IN  /\ key \in DOMAIN hist[j].store
                  /\ hist[j].store[key] = [X |-> ArgX(hist[j].call.data),
                                           y |-> ArgY(hist[j].call.data)]
    /\ FreshCellCompleted =>
          LET testKey == UploadFilename(rev, FolderTest, FormatInt(0))
          IN  /\ DOMAIN store = ShardKeys \cup {FullCopyKey, testKey}
              /\ store[FullCopyKey] = [X |-> X_train, y |-> y_train]
              /\ \A i \in 0..(num_splits - 1) :
                    store[UploadFilename(rev, FolderTrain, FormatInt(i))] =
                        ShardObject(X_train, y_train, num_splits, i)
              /\ store[testKey] = [X |-> X_test, y |-> y_test]
              /\ localfs[ShardPath(0)] = [X |-> X_test, y |-> y_test]

\* C20's case: the cell has run to its end on a dataset whose full training
\* set, first shard and test set all differ, so that <local_dir>/0 has held
\* three different contents.
C20_Witness ==
    /\ FreshCellCompleted
    /\ Len(X_test) >= 2
    /\ store[FullCopyKey] # localfs[ShardPath(0)]
    /\ store[FullCopyKey] # store[UploadFilename(rev, FolderTrain, <<"0">>)]
    /\ store[UploadFilename(rev, FolderTrain, <<"0">>)]
          # localfs[ShardPath(0)]

\* C21: split_and_upload called with an empty dataset and k >= 1 (0 is a
\* multiple of k, the assertion passes) or with k = 0 produces no shards: it
\* fails with an error that is not the assertion error, the zero step that
\* range() refuses in the first case and the division by zero of n//k in the
\* second; in both cases no local file has been written, no transfer
\* started and no object put; a split that returns had k >= 1 and a dataset
\* that is not empty.  The zero step is raised for the empty dataset only.
C21_DegenerateSplitFailsUnasserted ==
    /\ (call.fn = "split" /\ call.k >= 1 /\ CallN = 0) =>
          /\ (CallN \div call.k) * call.k = CallN
          /\ pc = "failed"
          /\ err = "ValueError"
          /\ NothingDone
    /\ (call.fn = "split" /\ call.k = 0) =>
          /\ pc = "failed"
          /\ err = "ZeroDivisionError"
          /\ err # "AssertionError"
          /\ NothingDone
    /\ \A j \in 1..Len(hist) :
          hist[j].call.fn = "split" =>
              /\ hist[j].call.k >= 1
              /\ Len(ArgX(hist[j].call.data)) >= 1
              /\ Len(hist[j].puts) = hist[j].call.k
    /\ (call.fn = "split" /\ err = "ValueError") => CallN = 0

\* C21's case: the split of an empty training set into k >= 1 shards has
\* failed on the zero step, in a session whose bucket already held an
\* object.
C21_Witness ==
    /\ pc = "failed"
    /\ err = "ValueError"
    /\ call.fn = "split"
    /\ call.k >= 1
    /\ CallN = 0
    /\ DOMAIN store # {}

\* Every host of the job has local data of the same number of rows.
EqualShards ==
    \A g \in DOMAIN shard_rows : \A h \in DOMAIN shard_rows :
        shard_rows[g] = shard_rows[h]

\* Every host of the job is Done.
AllDone == \A h \in DOMAIN hpc : hpc[h] = "done"

\* C22: in a multi-host run in synchronous mode in which every host trains
\* on a shard of the same size, with the same batch size and epoch count,
\* the hosts step together: no host is ever waiting for a sum that lacks
\* the gradients of a host that is Done, and the hosts are never more than
\* one step apart; all hosts eventually are Done, so that no host waits
\* for ever; and when
\* they are, every host has applied the same number of optimizer steps,
\* epochs times the number of batches of a shard.
C22_SyncHostsFinishTogether ==
    /\ [](EqualShards =>
            \A g \in DOMAIN hpc : \A h \in DOMAIN hpc :
                /\ (hpc[h] = "waiting" /\ Pushed(g) < Pushed(h)) =>
                      hpc[g] # "done"
                /\ hsteps[g] - hsteps[h] \in -1..1
                /\ AllDone =>
                      /\ hsteps[g] = hsteps[h]
                      /\ hsteps[h] =
                            epochs * NumBatches(shard_rows[h], batch_size))
    /\ EqualShards ~> AllDone

\* C22's case: a job of the largest number of hosts, on shards of equal
\* size that give several batches, is Done on every host after several
\* epochs.
C22_Witness ==
    /\ Len(hosts) = MaxHosts
    /\ DOMAIN hpc = 1..MaxHosts
    /\ EqualShards
    /\ AllDone
    /\ epochs >= 2
    /\ \A h \in DOMAIN hsteps : hsteps[h] >= 4

\* With local data of unequal size a host can have finished while another
\* waits for a sum that needs the finished host's gradients.
WaitsForFinishedHost ==
    \E g \in DOMAIN hpc : \E h \in DOMAIN hpc :
        hpc[g] = "done" /\ hpc[h] = "waiting" /\ Pushed(g) < Pushed(h)

TypeOK ==
    /\ rev \in Revisions
    /\ pc \in {"idle", "cell", "loop", "saved", "uploading", "failed"}
    /\ calls \in 0..MaxCalls
    /\ Cardinality(inflight) <= 1

====
